---- MODULE Spec2Model ----
(***************************************************************************)
(* Model of the portfolio back-end lambdas.                                *)
(*                                                                         *)
(*   src/index.mjs         the country resolver: the process-wide          *)
(*                         countryData table, its loader and the           *)
(*                         GET /geolocation handler;                       *)
(*   src/unnamed/part_000  the two grant issuers: GET /languages and       *)
(*                         GET /countries with generateSignedCloudFrontUrl.*)
(*                                                                         *)
(* Async handlers are split at their awaits; everything a handler does     *)
(* between two awaits is one atomic step (single-threaded event loop).     *)
(* Strings that the code takes apart (the resource key, the URL) are       *)
(* sequences of one-character strings.                                     *)
(***************************************************************************)
EXTENDS Integers, Sequences, FiniteSets, TLC

\* ------------------------------------------------------------------ bounds
MaxReq == 1        \* /geolocation requests in flight at once, besides the startup load
MaxTableLen == 2   \* entries of a reference dataset payload
MaxKeyLen == 3     \* characters of a 'file' query parameter
MaxNow == 3        \* last clock reading (ms) at which a request arrives

\* ------------------------------------------------------- program constants
EXPIRES_IN_SECONDS == 60

VARIABLES
  countryData,   \* the module-level table of index.mjs
  writes,        \* how many times countryData has been assigned
  loadsOk,       \* some load has succeeded
  fromFailure,   \* countryData was last assigned by the catch block of a load
  startup,       \* the load started at module evaluation: "fetching" or "done"
  requests,      \* the /geolocation requests in flight
  last,          \* the /geolocation exchange answered last
  now,           \* Date.now() in ms
  grant          \* the grant endpoint exchange answered last

geoVars == <<countryData, writes, loadsOk, fromFailure, startup, requests, last>>
grantVars == <<now, grant>>
vars == <<countryData, writes, loadsOk, fromFailure, startup, requests, last, now, grant>>

\* ================================================================ index.mjs

\* JavaScript values of the countryData variable: null or an array.
Null == [kind |-> "null", items |-> <<>>]
Arr(t) == [kind |-> "array", items |-> t]

\* JavaScript truthiness of such a value: null is falsy, every array
\* (the empty one included) is truthy.
Truthy(v) == v.kind # "null"

\* Entries of the reference dataset.  FR occurs twice with different
\* records so that "first match" is observable.
FR1 == [code |-> "FR", name |-> "France", dial_code |-> "+33", flag |-> "fr"]
FR2 == [code |-> "FR", name |-> "France (dup)", dial_code |-> "+99", flag |-> "fr2"]
US1 == [code |-> "US", name |-> "United States", dial_code |-> "+1", flag |-> "us"]
Entries == {FR1, FR2, US1}

SeqsUpTo(S, n) == UNION {[1..k -> S] : k \in 0..n}

\* What the S3 object can parse to: a list of country entries, none listed
\* twice (two entries may still share their code).
Payloads == {p \in SeqsUpTo(Entries, MaxTableLen) :
               \A i, j \in 1..Len(p) : p[i] = p[j] => i = j}

\* Outcome of the S3 fetch + transformToString + JSON.parse of one load.
LoadOutcomes == {[ok |-> TRUE, payload |-> p] : p \in Payloads}
                  \cup {[ok |-> FALSE, payload |-> <<>>]}

\* What the geolocation oracle can answer: an exception (network error,
\* timeout, non-2xx), or a body with a status and possibly a countryCode.
\* "" stands for an absent or empty countryCode (both falsy).
OracleCodes == {"", "FR", "US", "ZZ"}
OracleOutcomes == {[threw |-> TRUE, status |-> "none", countryCode |-> ""]}
                    \cup {[threw |-> FALSE, status |-> "success", countryCode |-> c] :
                             c \in OracleCodes}
                    \cup {[threw |-> FALSE, status |-> "fail", countryCode |-> c] :
                             c \in {"", "FR"}}

ReqIds == 1..MaxReq

NoResp == [status |-> 0, body |-> [none |-> TRUE]]

DataUnavailableResp ==
  [status |-> 500,
   body |-> [error |-> "Country data not available",
             message |-> "Failed to load country data from S3."]]

DefaultResp ==
  [status |-> 200, body |-> [dial_code |-> "+1", message |-> "Defaulting to +1"]]

DetectFailedResp ==
  [status |-> 500,
   body |-> [error |-> "Failed to detect country code", message |-> "oracle error"]]

MatchResp(c) ==
  [status |-> 200,
   body |-> [dial_code |-> c.dial_code, country_code |-> c.code,
             country_name |-> c.name, flag |-> c.flag]]

\* find that returns the last match instead of the first.
FindIndexLast(t, code) ==
  IF \E i \in 1..Len(t) : t[i].code = code
    THEN CHOOSE i \in 1..Len(t) :
           /\ t[i].code = code
           /\ \A j \in (i+1)..Len(t) : t[j].code # code
    ELSE 0

\* Array.prototype.find with the predicate country.code === code:
\* the index of the first matching entry, 0 when there is none.
FindIndex(t, code) ==
  IF \E i \in 1..Len(t) : t[i].code = code
    THEN CHOOSE i \in 1..Len(t) :
           /\ t[i].code = code
           /\ \A j \in 1..(i-1) : t[j].code # code
    ELSE 0

\* The body of the try block of GET /geolocation once the oracle answered.
Resolve(table, o) ==
  IF o.threw THEN DetectFailedResp
  ELSE IF o.status = "success" /\ o.countryCode # ""
         THEN LET i == FindIndex(table, o.countryCode)
              IN  IF i # 0 THEN MatchResp(table[i]) ELSE DefaultResp
         ELSE DefaultResp

\* The value loadCountryDataFromS3 assigns when its fetch completes.
LoadResult(out) == IF out.ok THEN Arr(out.payload) ELSE Arr(<<>>)

\* The early return at the top of loadCountryDataFromS3.
LoadSkips(cd) == Truthy(cd)

\* A handler that goes on without checking the table.
NeedsLoadNever(cd) == FALSE

\* The guard of GET /geolocation: is a load needed before proceeding?
NeedsLoad(cd) == ~Truthy(cd)

\* A request that has not queried the oracle yet.
NoOracle == [threw |-> FALSE, status |-> "unasked", countryCode |-> ""]

\* One /geolocation request in flight: where its handler stands (pc) and
\* what it observed on the way: whether countryData was null (sawNull) or
\* held the marker of a failed load (sawFailed) when it arrived, and
\* whether it awaited a load.
InitReq == [pc |-> "idle", sawNull |-> FALSE, sawFailed |-> FALSE, awaited |-> FALSE]

\* An answered exchange: the observations of the request, what the oracle
\* answered (geo), the value of countryData that was searched (table) and
\* the response.
NoAnswer == [answered |-> FALSE, sawNull |-> FALSE, sawFailed |-> FALSE,
             awaited |-> FALSE, geo |-> NoOracle, table |-> Null, resp |-> NoResp]
Answer(q, o, t, a) == [answered |-> TRUE, sawNull |-> q.sawNull, sawFailed |-> q.sawFailed,
                       awaited |-> q.awaited, geo |-> o, table |-> t, resp |-> a]

\* A /geolocation request arrives and runs up to its first await.
GeoRequest(r) ==
  /\ requests[r].pc = "idle"
  /\ LET seen == [requests[r] EXCEPT !.sawNull = ~Truthy(countryData),
                                     !.sawFailed = fromFailure]
     IN  requests' = [requests EXCEPT ![r] =
           IF NeedsLoad(countryData)
             THEN IF LoadSkips(countryData)
                    THEN [seen EXCEPT !.pc = "afterLoad", !.awaited = TRUE]
                    ELSE [seen EXCEPT !.pc = "loading", !.awaited = TRUE]
             ELSE [seen EXCEPT !.pc = "oracle"]]
  /\ UNCHANGED <<countryData, writes, loadsOk, fromFailure, startup, last, grantVars>>

\* The load started at module evaluation completes.
StartupLoadFinish(out) ==
  /\ startup = "fetching"
  /\ startup' = "done"
  /\ countryData' = LoadResult(out)
  /\ writes' = writes + 1
  /\ loadsOk' = (loadsOk \/ out.ok)
  /\ fromFailure' = ~out.ok
  /\ UNCHANGED <<requests, last, grantVars>>

\* The load a request awaits completes.
LoadFinish(r, out) ==
  /\ requests[r].pc = "loading"
  /\ countryData' = LoadResult(out)
  /\ writes' = writes + 1
  /\ loadsOk' = (loadsOk \/ out.ok)
  /\ fromFailure' = ~out.ok
  /\ requests' = [requests EXCEPT ![r].pc = "afterLoad"]
  /\ UNCHANGED <<startup, last, grantVars>>

\* The handler resumes after `await loadCountryDataFromS3()`.
AfterLoad(r) ==
  /\ requests[r].pc = "afterLoad"
  /\ IF ~Truthy(countryData)
       THEN /\ last' = Answer(requests[r], NoOracle, countryData, DataUnavailableResp)
            /\ requests' = [requests EXCEPT ![r] = InitReq]
       ELSE /\ requests' = [requests EXCEPT ![r].pc = "oracle"]
            /\ UNCHANGED last
  /\ UNCHANGED <<countryData, writes, loadsOk, fromFailure, startup, grantVars>>

\* The oracle call of a request settles and the handler answers.
OracleReturn(r, o) ==
  /\ requests[r].pc = "oracle"
  /\ last' = Answer(requests[r], o, countryData, Resolve(countryData.items, o))
  /\ requests' = [requests EXCEPT ![r] = InitReq]
  /\ UNCHANGED <<countryData, writes, loadsOk, fromFailure, startup, grantVars>>

NextGeo ==
  \/ \E r \in ReqIds : GeoRequest(r)
  \/ \E out \in LoadOutcomes : StartupLoadFinish(out)
  \/ \E r \in ReqIds, out \in LoadOutcomes : LoadFinish(r, out)
  \/ \E r \in ReqIds : AfterLoad(r)
  \/ \E r \in ReqIds, o \in OracleOutcomes : OracleReturn(r, o)

InitGeo ==
  /\ countryData = Null
  /\ writes = 0
  /\ loadsOk = FALSE
  /\ fromFailure = FALSE
  /\ startup = "fetching"
  /\ requests = [r \in ReqIds |-> InitReq]
  /\ last = NoAnswer

\* ================================================================ part_000

\* CLOUDFRONT_LANGUAGES_DOMAIN / CLOUDFRONT_COUNTRIES_DOMAIN: a non-empty
\* string (startup exits otherwise).
CLOUDFRONT_DOMAIN == <<"d">>

Chars == {"/", "a"}

\* The 'file' query parameter: absent (undefined) or a string.
Missing == [present |-> FALSE, val |-> <<>>]
Files == {Missing} \cup {[present |-> TRUE, val |-> k] : k \in SeqsUpTo(Chars, MaxKeyLen)}

\* JavaScript truthiness of req.query.file: undefined and "" are falsy.
FileGiven(file) == file.present /\ file.val # <<>>

\* String(file) as a template literal interpolates it.
Interpolate(file) == IF file.present THEN file.val
                     ELSE <<"u","n","d","e","f","i","n","e","d">>

\* fileKey.startsWith("/") ? fileKey.substring(1) : fileKey
CleanFileKey(k) == IF Len(k) > 0 /\ k[1] = "/" THEN Tail(k) ELSE k

\* The resource URL each endpoint builds.
LanguagesUrl(file) == CLOUDFRONT_DOMAIN \o <<"/">> \o Interpolate(file)
CountriesUrl(k) == CLOUDFRONT_DOMAIN \o <<"/">> \o CleanFileKey(k)

\* The offset (ms) each endpoint adds to Date.now().
LanguagesOffsetMs == EXPIRES_IN_SECONDS * 10
CountriesOffsetMs == EXPIRES_IN_SECONDS * 1000

\* new Date(ms).toISOString(): the calendar fields down to the millisecond;
\* the whole seconds and the milliseconds field are kept apart as the
\* string keeps them.
ToISOString(ms) == [secs |-> ms \div 1000, millis |-> ms % 1000]

\* The instant (ms) an ISO string denotes.
InstantOf(iso) == iso.secs * 1000 + iso.millis

NoCall == [called |-> FALSE, url |-> <<>>, dateLessThan |-> ToISOString(0)]
SignerCall(u, d) == [called |-> TRUE, url |-> u, dateLessThan |-> d]

NoGrant == [endpoint |-> "none", file |-> Missing, at |-> 0, status |-> 0,
            body |-> [none |-> TRUE], signer |-> NoCall, redirect |-> FALSE]

\* The 400 of each endpoint.
LanguagesMissingBody ==
  [error |-> "Missing file",
   message |-> "Provide the ?file=filename.json query param to download a file."]
CountriesMissingBody == [error |-> "Missing 'file' parameter"]

\* A validation that only rejects an absent parameter.
LanguagesRejectsAbsentOnly(file) == ~file.present

\* Does the handler reject the request before signing?
LanguagesRejects(file) == ~FileGiven(file)
CountriesRejects(file) == ~FileGiven(file)

\* GET /languages, the whole handler; signOk is whether getSignedUrl returns.
Languages(file, signOk) ==
  /\ grant' =
       LET resourceUrl == LanguagesUrl(file)
       IN  IF LanguagesRejects(file)
             THEN [NoGrant EXCEPT !.endpoint = "languages", !.file = file, !.at = now,
                                  !.status = 400, !.body = LanguagesMissingBody]
             ELSE LET call == SignerCall(resourceUrl, ToISOString(now + LanguagesOffsetMs))
                  IN  IF signOk
                        THEN [NoGrant EXCEPT !.endpoint = "languages", !.file = file,
                                             !.at = now, !.status = 302, !.signer = call,
                                             !.redirect = TRUE]
                        ELSE [NoGrant EXCEPT !.endpoint = "languages", !.file = file,
                                             !.at = now, !.status = 500, !.signer = call,
                                             !.body = [error |-> "Signed URL generation failed",
                                                       message |-> "signer error"]]
  /\ UNCHANGED <<now, geoVars>>

\* GET /countries, the whole handler, generateSignedCloudFrontUrl included.
Countries(file, signOk) ==
  /\ grant' =
       IF CountriesRejects(file)
         THEN [NoGrant EXCEPT !.endpoint = "countries", !.file = file, !.at = now,
                              !.status = 400, !.body = CountriesMissingBody]
         ELSE LET call == SignerCall(CountriesUrl(file.val),
                                     ToISOString(now + CountriesOffsetMs))
              IN  IF signOk
                    THEN [NoGrant EXCEPT !.endpoint = "countries", !.file = file,
                                         !.at = now, !.status = 302, !.signer = call,
                                         !.redirect = TRUE]
                    ELSE [NoGrant EXCEPT !.endpoint = "countries", !.file = file,
                                         !.at = now, !.status = 500, !.signer = call,
                                         !.body = [error |-> "Failed to retrieve file URL",
                                                   message |-> "Failed to generate CloudFront signed URL."]]
  /\ UNCHANGED <<now, geoVars>>

\* Time passes between requests.
Tick ==
  /\ now < MaxNow
  /\ now' = now + 1
  /\ UNCHANGED <<grant, geoVars>>

NextGrant ==
  \/ \E f \in Files, ok \in BOOLEAN : Languages(f, ok)
  \/ \E f \in Files, ok \in BOOLEAN : Countries(f, ok)
  \/ Tick

InitGrant ==
  /\ now = 0
  /\ grant = NoGrant

Init == InitGeo /\ InitGrant

Next == NextGeo \/ NextGrant

SpecGeo == Init /\ [][NextGeo]_vars
SpecGrant == Init /\ [][NextGrant]_vars
Spec == Init /\ [][Next]_vars

\* ================================================================== claims

AskedOracle == last.answered /\ last.geo # NoOracle
NoLoadInFlight == startup = "done" /\ \A r \in ReqIds : requests[r].pc # "loading"

\* C1: when every load attempt has failed, a /geolocation request is
\* answered with the 'Country data not available' error and never with the
\* default record.
C1_UnavailableWhenAllLoadsFailed ==
  (NoLoadInFlight /\ ~loadsOk /\ last.answered) => last.resp = DataUnavailableResp

\* C2: with the table loaded, a failure of the oracle call is answered with
\* the default record and never with a 5xx response.
C2_OracleFailureDegradesToDefault ==
  (AskedOracle /\ last.geo.threw) =>
     /\ last.resp.status = 200
     /\ last.resp = DefaultResp

\* The oracle reported success with a code that some entry of table t has.
Known(t, o) ==
  /\ o.status = "success"
  /\ o.countryCode # ""
  /\ \E i \in 1..Len(t) : t[i].code = o.countryCode

\* C3: with the table loaded, an oracle success whose code equals the code
\* of a table entry is answered with the record of the first such entry;
\* any other oracle response is answered with the default record, status 200.
C3_MatchOrDefault ==
  (AskedOracle /\ ~last.geo.threw) =>
     LET t == last.table.items
         o == last.geo
         a == last.resp
     IN  IF Known(t, o)
           THEN \E i \in 1..Len(t) :
                  /\ t[i].code = o.countryCode
                  /\ \A j \in 1..Len(t) : t[j].code = o.countryCode => i <= j
                  /\ a.status = 200
                  /\ a.body = [dial_code |-> t[i].dial_code, country_code |-> t[i].code,
                               country_name |-> t[i].name, flag |-> t[i].flag]
           ELSE /\ a.status = 200
                /\ a.body.dial_code = "+1"
                /\ "country_code" \notin DOMAIN a.body

\* A request searched a table holding two entries with the same code and
\* was answered from the first: the table <<FR1, FR2>>, the oracle saying FR.
C3_Witness ==
  /\ AskedOracle
  /\ last.table.items = <<FR1, FR2>>
  /\ last.geo = [threw |-> FALSE, status |-> "success", countryCode |-> "FR"]
  /\ last.resp.body.dial_code = "+33"

\* C4: every grant's expiry instant is strictly later than its issuance
\* instant and equals issuance + EXPIRES_IN_SECONDS seconds.
C4_ExpiryIsIssuancePlusTTL ==
  grant.signer.called =>
     /\ InstantOf(grant.signer.dateLessThan) > grant.at
     /\ InstantOf(grant.signer.dateLessThan) = grant.at + EXPIRES_IN_SECONDS * 1000

\* The key with one leading "/" removed.
StripOne(k) == IF k # <<>> /\ Head(k) = "/" THEN SubSeq(k, 2, Len(k)) ELSE k

\* C5: for every non-empty key, the URL that is signed is
\* baseDomain + "/" + the key with one leading "/" removed.
C5_UrlIsDomainSlashNormalizedKey ==
  grant.signer.called =>
     grant.signer.url = CLOUDFRONT_DOMAIN \o <<"/">> \o StripOne(grant.file.val)

\* C6: a grant request whose 'file' parameter is missing or empty is
\* answered with 400, the signer is not called and no redirect is sent.
C6_MissingFileRejectedWithoutSigning ==
  (grant.endpoint # "none" /\ (~grant.file.present \/ grant.file.val = <<>>)) =>
     /\ grant.status = 400
     /\ ~grant.signer.called
     /\ ~grant.redirect

\* /languages has rejected a request whose parameter is the empty string.
C6_Witness ==
  /\ grant.endpoint = "languages"
  /\ grant.file = [present |-> TRUE, val |-> <<>>]
  /\ grant.status = 400

\* C7: the countryData variable is written at most once in a process
\* lifetime.
C7_TableWrittenAtMostOnce == writes <= 1

\* C8: a request that finds countryData null awaits a load before it
\* proceeds, and no request queries the oracle or searches the table while
\* countryData is null.
C8_NoLookupOnNullTable ==
  /\ \A r \in ReqIds :
        /\ requests[r].pc = "oracle" => countryData.kind # "null"
        /\ (requests[r].sawNull /\ requests[r].pc = "oracle") => requests[r].awaited
  /\ AskedOracle => last.table.kind # "null"
  /\ (last.answered /\ last.sawNull) => last.awaited

\* A request arrived while the startup load was still in flight, awaited
\* its own load and is now querying the oracle.
C8_Witness ==
  \E r \in ReqIds :
     /\ startup = "fetching"
     /\ requests[r].sawNull
     /\ requests[r].awaited
     /\ requests[r].pc = "oracle"

HasErrorAndMessage(body) == "error" \in DOMAIN body /\ "message" \in DOMAIN body

\* C9: every failure response of every endpoint carries both an 'error'
\* and a 'message' field.
C9_FailureBodiesAreStructured ==
  /\ grant.status \in {400, 500} => HasErrorAndMessage(grant.body)
  /\ (last.answered /\ last.resp.status >= 400) => HasErrorAndMessage(last.resp.body)

\* C10: a request that arrives after a load has failed attempts the load
\* again before it answers, and answers with 'Country data not available'
\* only if that attempt fails too.
C10_FailedLoadIsRetried ==
  /\ \A r \in ReqIds :
        (requests[r].sawFailed /\ requests[r].pc = "oracle") => requests[r].awaited
  /\ (last.answered /\ last.sawFailed) => last.awaited
  /\ (last.answered /\ last.resp = DataUnavailableResp) => (last.awaited /\ ~loadsOk)
====
